---- MODULE Spec2Model ----
(***************************************************************************)
(* Model of run_batch.py: main() starts the platform's serving task,       *)
(* fans out one wait_and_work task per (debate_id, repetition) under a     *)
(* semaphore, waits for the fan-out TaskGroup and then cancels and awaits  *)
(* the serving task.  work() runs one debate on an assigned session.       *)
(*                                                                         *)
(* Scheduling is asyncio's: one task runs at a time, and a task runs from  *)
(* one suspension point (await) to the next without interruption, so each  *)
(* action below is one such stretch.  The awaited collaborators            *)
(* (platform.assign, session.*, platform.serve) are the environment: each  *)
(* await either returns, raises an error, or delivers a pending            *)
(* cancellation.                                                           *)
(***************************************************************************)
EXTENDS Integers, Sequences, FiniteSets, TLC

\* ------------------------------------------------------------------ bounds
MaxUnits == 2       \* largest number of wait_and_work tasks in a run followed to its end
MaxTasks == 6       \* largest number of wait_and_work tasks main creates in one run
NumMotions == 1     \* len(session.motions) of the loaded preset

\* the command lines explored: args.start, args.stop, args.repeat
StartValues == {-1, 0, 1}
StopValues == {-1, 0, 1, 2}
RepeatValues == {-1, 0, 1, 2}
\* args.stop of the command lines whose fan-out alone is explored (FanOutSpec)
GridStopValues == {-1, 0, 1, 2, 3}
\* the capacity the program constructs the semaphore with (line 123)
SemaphoreCapacity == 12
\* the capacities explored for the semaphore: the program's own, under which no
\* task of a run this small ever waits, one that makes every task but one wait,
\* and one that admits two at a time
Capacities == {1, 2, SemaphoreCapacity}

VARIABLES
    start, stop, repeat,    \* args.start, args.stop, args.repeat
    capacity,               \* the value the semaphore is constructed with
    mpc,                    \* position of main()
    cur_id, cur_rep,        \* loop variables of the two for loops of main
    tasks,                  \* debate_id of every task created in inner_tg, in creation order
    mainExc,                \* exception in flight in main from its finally clause on
    mainResult,             \* how main() ended
    lateCancel,             \* main's task was cancelled while its coroutine ran its last step
    innerAborting,          \* inner_tg._aborting
    propagate,              \* inner_tg: a CancelledError of the parent is to be re-raised
    svc,                    \* state of the task running platform.serve()
    svcCancelReq,           \* a cancellation of the serving task has been requested
    value, waiters,         \* semaphore._value, semaphore._waiters
    upc,                    \* position of every wait_and_work task
    cancelReq,              \* per task: 0 no cancel, 1 cancel requested, 2 CancelledError delivered
    pending,                \* per task: exception in flight while in work()'s finally clause
    reports,                \* per task: what work() printed, in order
    resetCalls, saveCalls,  \* per task: calls of session.reset_debate / session.save_record
    acq, rel,               \* per task: semaphore acquisitions completed / releases
    assigned,               \* per task: sessions obtained from platform.assign()
    runRet,                 \* per task: how session.start_debate() ended
    fault                   \* per task: the places where an error was raised

params   == <<start, stop, repeat, capacity>>
mainVars == <<mpc, cur_id, cur_rep, tasks, mainExc, mainResult, lateCancel>>
tgVars   == <<innerAborting, propagate>>
svcVars  == <<svc, svcCancelReq>>
semVars  == <<value, waiters>>
unitVars == <<upc, cancelReq, pending, reports, resetCalls, saveCalls, acq, rel,
              assigned, runRet, fault>>
vars     == <<params, mainVars, tgVars, svcVars, semVars, unitVars>>

Units == 1..MaxUnits
AllUnits == 1..MaxTasks
Created == 1..Len(tasks)

\* positions of a wait_and_work task
InsideGate == {"assign", "update_config", "select_debate", "start_debate",
               "save_record", "reset_debate"}
UnitTerminal == {"done", "failed", "cancelled"}
SvcTerminal == {"cancelled", "failed", "returned"}

\* ------------------------------------------------------- pure helpers
\* range(lo, hi) still has the element i to visit
InRangeMut(i, lo, hi) == lo <= i /\ i <= hi
InRange(i, lo, hi) == lo <= i /\ i < hi

\* session.motions[debate_id] exists (Python list indexing, negative indices count from the end)
ValidIndexMut(i) == TRUE
ValidIndex(i) == -NumMotions <= i /\ i < NumMotions

\* the statements of work() enclosed by the try block (lines 81-111)
InTryBlockMut(at) == at \in {"report", "save_record"}
InTryBlock(at) == at \in {"start_debate", "report", "save_record"}

\* "except Exception" catches errors and lets CancelledError through
ExceptCatchesNothing(exc) == FALSE
ExceptCatchesMut(exc) == exc \in {"error", "cancelled"}
ExceptCatches(exc) == exc = "error"

\* what work() prints after start_debate() returned, before the summary (lines 83-86)
RunReportsNoEnd(result) == IF result = "None" THEN <<"Cancelled">> ELSE <<>>
RunReportsMut(result) == IF result = "None" THEN <<"End">> ELSE <<"End", "Cancelled">>
RunReports(result) == IF result = "None" THEN <<"End", "Cancelled">> ELSE <<"End">>

Remove(ws, u) == SelectSeq(ws, LAMBDA x : x # u)

\* a waiter's future is still pending: not yet given a result and not cancelled
FutPending(pcs, cr, w) == pcs[w] = "waiting" /\ cr[w] # 1

\* Semaphore.locked()
LockedMut == FALSE
Locked ==
    \/ value = 0
    \/ \E i \in 1..Len(waiters) :
          ~(upc[waiters[i]] = "waiting" /\ cancelReq[waiters[i]] = 1)

\* Semaphore._wake_up_next(): the first waiter whose future is not done gets the slot
WakeUpNextMut(v, pcs, cr, ws) == [value |-> v, upc |-> pcs]
WakeUpNext(v, pcs, cr, ws) ==
    LET idx == {i \in 1..Len(ws) : FutPending(pcs, cr, ws[i])}
    IN IF idx = {} THEN [value |-> v, upc |-> pcs]
       ELSE LET w == ws[CHOOSE i \in idx : \A j \in idx : i <= j]
            IN [value |-> v - 1, upc |-> [pcs EXCEPT ![w] = "granted"]]

\* Semaphore.release()
ReleaseMut(v, pcs, cr, ws) == [value |-> v, upc |-> pcs]
Release(v, pcs, cr, ws) == WakeUpNext(v + 1, pcs, cr, ws)

\* ------------------------------------------------------------- initial state
\* number of iterations of the nested loops of main (lines 130-132)
NumTasks(a, b, r) == (IF b > a THEN b - a ELSE 0) * (IF r > 0 THEN r ELSE 0)

\* the state after construction, for the command lines with args.stop in stops
\* that make main create at most n tasks
InitFor(stops, n) ==
    /\ start \in StartValues
    /\ stop \in stops
    /\ repeat \in RepeatValues
    /\ capacity \in Capacities
    /\ NumTasks(start, stop, repeat) <= n
    /\ mpc = "init"
    /\ cur_id = 0
    /\ cur_rep = 0
    /\ tasks = <<>>
    /\ mainExc = "none"
    /\ mainResult = "none"
    /\ lateCancel = FALSE
    /\ innerAborting = FALSE
    /\ propagate = FALSE
    /\ svc = "none"
    /\ svcCancelReq = FALSE
    /\ value = 0
    /\ waiters = <<>>
    /\ upc = [u \in AllUnits |-> "none"]
    /\ cancelReq = [u \in AllUnits |-> 0]
    /\ pending = [u \in AllUnits |-> "none"]
    /\ reports = [u \in AllUnits |-> <<>>]
    /\ resetCalls = [u \in AllUnits |-> 0]
    /\ saveCalls = [u \in AllUnits |-> 0]
    /\ acq = [u \in AllUnits |-> 0]
    /\ rel = [u \in AllUnits |-> 0]
    /\ assigned = [u \in AllUnits |-> 0]
    /\ runRet = [u \in AllUnits |-> "none"]
    /\ fault = [u \in AllUnits |-> {}]

Init == InitFor(StopValues, MaxUnits)

\* ------------------------------------------------------------------- main()
\* main is suspended at an await, so the other tasks may run
MainSuspended == mpc \in {"await_inner", "await_task", "outer_exit"}

\* task.cancel() of line 134: a request is made unless the task is already done
TaskCancelMut == svcCancelReq
TaskCancel == svcCancelReq \/ svc \notin SvcTerminal

\* "await task" has its answer: the serving task is done
ServiceAwaitedMut == TRUE
ServiceAwaited == svc \in SvcTerminal

\* how main ends with the exception exc in flight: lines 136-139, then the exit of
\* the outer TaskGroup, which raises the serving task's own error and otherwise
\* lets the exception in flight through
MainOutcomeNotSwallowed(exc) ==
    IF svc = "failed" \/ exc = "error" THEN "failed"
    ELSE IF exc = "cancelled" \/ svc = "cancelled" THEN "cancelled"
    ELSE "returned"
MainOutcomeIgnoresService(exc) ==
    IF exc = "error" THEN "failed"
    ELSE IF exc = "cancelled" THEN "cancelled"
    ELSE "returned"
MainOutcome(exc) ==
    IF svc = "failed" \/ exc = "error" THEN "failed"
    ELSE IF exc = "cancelled" THEN "cancelled"
    ELSE "returned"

\* how the task running main() ends when its coroutine ends with the exception exc
\* in flight.  A cancel() of the task (Runner's SIGINT handler) that arrives while
\* the coroutine executes this last step finds no future to cancel and is only
\* noted; the task of a coroutine that then returns ends cancelled, and one whose
\* coroutine raises ends with what it raised.
TaskOutcome(exc, late) ==
    IF late /\ MainOutcome(exc) = "returned" THEN "cancelled" ELSE MainOutcome(exc)

\* the last step of main: the coroutine ends with the exception exc in flight
MainEnds(exc) ==
    /\ mpc' = "done"
    /\ \E late \in BOOLEAN :
          /\ lateCancel' = late
          /\ mainResult' = TaskOutcome(exc, late)

\* the finally clause of main (lines 133-139): the serving task is cancelled and
\* awaited.  Awaiting a task that is done already does not suspend main; then the
\* exit of the outer TaskGroup ends main at once when the group has seen the
\* serving task end (its done callback has run), and suspends main until it has
\* when not.
EnterFinally(exc) ==
    /\ mainExc' = exc
    /\ svcCancelReq' = TaskCancel
    /\ IF ServiceAwaited
         THEN \/ MainEnds(exc)
              \/ /\ mpc' = "outer_exit"
                 /\ UNCHANGED <<mainResult, lateCancel>>
         ELSE /\ mpc' = "await_task"
              /\ UNCHANGED <<mainResult, lateCancel>>

\* TaskGroup._abort() of inner_tg: cancel every child that is not done
AbortedCancelReqMut == cancelReq
AbortedCancelReq ==
    [u \in AllUnits |-> IF u \in Created /\ upc[u] \notin UnitTerminal THEN 1 ELSE cancelReq[u]]

\* inner_tg.__aexit__: "while self._tasks" has ended, every child is done
InnerTasksDoneMut == innerAborting \/ \A u \in Created : upc[u] \in UnitTerminal
InnerTasksDone == \A u \in Created : upc[u] \in UnitTerminal

\* what inner_tg.__aexit__ raises once its children are done
InnerExitExc ==
    IF \E u \in Created : upc[u] = "failed" THEN "error"
    ELSE IF propagate THEN "cancelled"
    ELSE "none"

\* lines 119-123: the serving task is created, the semaphore constructed
MainStart ==
    /\ mpc = "init"
    /\ mpc' = "creating"
    /\ svc' = "created"
    /\ value' = capacity
    /\ cur_id' = start
    /\ cur_rep' = 0
    /\ UNCHANGED <<params, tasks, mainExc, mainResult, lateCancel, tgVars, svcCancelReq, waiters,
                   unitVars>>

\* line 132: one inner_tg.create_task(wait_and_work(debate_id))
InnerIterSwapped ==
    /\ mpc = "creating"
    /\ InRange(cur_id, start, stop)
    /\ InRange(cur_rep, 0, repeat)
    /\ tasks' = Append(tasks, start + (Len(tasks) % (stop - start)))
    /\ upc' = [upc EXCEPT ![Len(tasks) + 1] = "new"]
    /\ cur_rep' = cur_rep + 1
    /\ UNCHANGED <<params, mpc, cur_id, mainExc, mainResult, lateCancel, tgVars, svcVars, semVars,
                   cancelReq, pending, reports, resetCalls, saveCalls, acq, rel,
                   assigned, runRet, fault>>

InnerIter ==
    /\ mpc = "creating"
    /\ InRange(cur_id, start, stop)
    /\ InRange(cur_rep, 0, repeat)
    /\ tasks' = Append(tasks, cur_id)
    /\ upc' = [upc EXCEPT ![Len(tasks) + 1] = "new"]
    /\ cur_rep' = cur_rep + 1
    /\ UNCHANGED <<params, mpc, cur_id, mainExc, mainResult, lateCancel, tgVars, svcVars, semVars,
                   cancelReq, pending, reports, resetCalls, saveCalls, acq, rel,
                   assigned, runRet, fault>>

\* line 130: the inner loop is exhausted, the outer loop takes the next debate_id
OuterAdvance ==
    /\ mpc = "creating"
    /\ InRange(cur_id, start, stop)
    /\ ~InRange(cur_rep, 0, repeat)
    /\ cur_id' = cur_id + 1
    /\ cur_rep' = 0
    /\ UNCHANGED <<params, mpc, tasks, mainExc, mainResult, lateCancel, tgVars, svcVars, semVars,
                   unitVars>>

\* the outer loop is exhausted: inner_tg.__aexit__ waits for the children, or, when
\* there are none, returns at once and main goes on to the finally clause
LoopExit ==
    /\ mpc = "creating"
    /\ ~InRange(cur_id, start, stop)
    /\ IF tasks = <<>>
         THEN EnterFinally("none")
         ELSE /\ mpc' = "await_inner"
              /\ UNCHANGED <<mainExc, mainResult, lateCancel, svcCancelReq>>
    /\ UNCHANGED <<params, cur_id, cur_rep, tasks, tgVars, svc, semVars, unitVars>>

\* inner_tg._on_task_done for a child that ended with an error: the first one aborts
\* the group (the CancelledError it sends to main is caught in __aexit__'s loop)
InnerOnTaskError ==
    /\ mpc = "await_inner"
    /\ ~innerAborting
    /\ \E u \in Created : upc[u] = "failed"
    /\ innerAborting' = TRUE
    /\ cancelReq' = AbortedCancelReq
    /\ UNCHANGED <<params, mainVars, propagate, svcVars, semVars, upc, pending,
                   reports, resetCalls, saveCalls, acq, rel, assigned, runRet, fault>>

\* tg._on_task_done for the serving task that ended with an error while main
\* waits in inner_tg.__aexit__: the outer group cancels main, and inner_tg.__aexit__
\* catches the CancelledError, keeps it to be re-raised and aborts the fan-out
\* group.  (Once inner_tg is aborting it ignores the CancelledError.)
OuterOnTaskError ==
    /\ mpc = "await_inner"
    /\ svc = "failed"
    /\ ~innerAborting
    /\ innerAborting' = TRUE
    /\ propagate' = TRUE
    /\ cancelReq' = AbortedCancelReq
    /\ UNCHANGED <<params, mainVars, svcVars, semVars, upc, pending, reports, resetCalls,
                   saveCalls, acq, rel, assigned, runRet, fault>>

\* the task running main() is cancelled from outside (Runner's SIGINT handler).
\* Before the first step of main the coroutine never runs: main ends cancelled and
\* nothing was created.  While main waits in inner_tg.__aexit__ the CancelledError
\* aborts the group and is kept to be re-raised.  While main waits in the exit of
\* the outer TaskGroup with no exception in flight (none left inner_tg, and "await
\* task" did not re-raise an error of the serving task) the CancelledError is kept
\* to be re-raised.  (Once a group is aborting its __aexit__ ignores it, and at
\* "await task" it is passed on to the serving task, whose cancellation is
\* already requested, and swallowed: neither changes the state.  A cancel() that
\* arrives while main's coroutine is executing is delivered at the await that
\* suspends it next, as above, or, in its last step, decides how the task ends:
\* MainEnds.)
ExternalCancel ==
    \/ /\ mpc = "init"
       /\ mpc' = "done"
       /\ mainResult' = "cancelled"
       /\ UNCHANGED <<params, cur_id, cur_rep, tasks, mainExc, lateCancel, tgVars, svcVars, semVars,
                      unitVars>>
    \/ /\ mpc = "await_inner"
       /\ ~innerAborting
       /\ innerAborting' = TRUE
       /\ propagate' = TRUE
       /\ cancelReq' = AbortedCancelReq
       /\ UNCHANGED <<params, mainVars, svcVars, semVars, upc, pending, reports, resetCalls,
                      saveCalls, acq, rel, assigned, runRet, fault>>
    \/ /\ mpc = "outer_exit"
       /\ mainExc = "none"
       /\ svc # "failed"
       /\ mainExc' = "cancelled"
       /\ UNCHANGED <<params, mpc, cur_id, cur_rep, tasks, mainResult, lateCancel, tgVars, svcVars,
                      semVars, unitVars>>

\* inner_tg.__aexit__ returns or raises; main enters its finally clause (lines 133-137)
MainInnerDone ==
    /\ mpc = "await_inner"
    /\ InnerTasksDone
    /\ EnterFinally(InnerExitExc)
    /\ UNCHANGED <<params, cur_id, cur_rep, tasks, tgVars, svc, semVars, unitVars>>

\* main resumes from "await task" and ends
MainTaskDone ==
    /\ mpc = "await_task"
    /\ ServiceAwaited
    /\ MainEnds(mainExc)
    /\ UNCHANGED <<params, cur_id, cur_rep, tasks, mainExc, tgVars, svcVars, semVars, unitVars>>

\* the outer TaskGroup has seen the serving task end: its __aexit__ resumes and
\* main ends
MainOuterDone ==
    /\ mpc = "outer_exit"
    /\ MainEnds(mainExc)
    /\ UNCHANGED <<params, cur_id, cur_rep, tasks, mainExc, tgVars, svcVars, semVars, unitVars>>

\* ------------------------------------------------------ platform.serve() task
\* the serving task takes its first step
SvcStart ==
    /\ MainSuspended
    /\ svc = "created"
    /\ svc' = IF svcCancelReq THEN "cancelled" ELSE "running"
    /\ UNCHANGED <<params, mainVars, tgVars, svcCancelReq, semVars, unitVars>>

\* the serving task ends: with an error or a return at any time, as cancelled once
\* its cancellation was requested.  (The outer TaskGroup learns of it in a later
\* callback: OuterOnTaskError.)
SvcEnds ==
    /\ MainSuspended
    /\ svc = "running"
    /\ svc' \in {"failed", "returned"} \cup (IF svcCancelReq THEN {"cancelled"} ELSE {})
    /\ UNCHANGED <<params, mainVars, tgVars, svcCancelReq, semVars, unitVars>>

\* ------------------------------------------------------ wait_and_work tasks
\* A wait_and_work task may take a step: main is suspended, and the serving task,
\* created before every wait_and_work task (line 120), has taken its first step
\* (the event loop runs the first steps of tasks in creation order)
UnitsMayRun == MainSuspended /\ svc # "created"

\* the task ends: "async with semaphore" releases the slot on the way out (line 126)
ExitTask(u, kind) ==
    LET r == Release(value, [upc EXCEPT ![u] = kind], cancelReq, waiters)
    IN /\ value' = r.value
       /\ upc' = r.upc
       /\ rel' = [rel EXCEPT ![u] = @ + 1]

\* an exception exc ("error" or "cancelled") is raised in task u at the place at,
\* after work() has printed rep.  Inside the try block an error is caught and
\* reported, and the finally clause calls reset_debate (lines 112-115); elsewhere
\* the exception leaves work() and wait_and_work, and the task ends with it.
Raise(u, at, exc, rep) ==
    /\ cancelReq' = IF exc = "cancelled" THEN [cancelReq EXCEPT ![u] = 2] ELSE cancelReq
    /\ fault' = IF exc = "error" THEN [fault EXCEPT ![u] = @ \cup {at}] ELSE fault
    /\ IF InTryBlock(at)
         THEN /\ reports' = [reports EXCEPT
                                ![u] = IF ExceptCatches(exc) THEN Append(rep, "Failed") ELSE rep]
              /\ pending' = [pending EXCEPT ![u] = IF ExceptCatches(exc) THEN "none" ELSE exc]
              /\ resetCalls' = [resetCalls EXCEPT ![u] = @ + 1]
              /\ upc' = [upc EXCEPT ![u] = "reset_debate"]
              /\ UNCHANGED <<value, rel>>
         ELSE /\ reports' = [reports EXCEPT ![u] = rep]
              /\ ExitTask(u, IF exc = "error" THEN "failed" ELSE "cancelled")
              /\ UNCHANGED <<pending, resetCalls>>
    /\ UNCHANGED waiters

\* first step of the task: semaphore.acquire() takes a slot at once and
\* platform.assign() is called, or the task queues up behind the gate
UnitStart(u) ==
    /\ UnitsMayRun
    /\ upc[u] = "new"
    /\ cancelReq[u] = 0
    /\ IF ~Locked
         THEN /\ value' = value - 1
              /\ acq' = [acq EXCEPT ![u] = @ + 1]
              /\ upc' = [upc EXCEPT ![u] = "assign"]
              /\ UNCHANGED waiters
         ELSE /\ waiters' = Append(waiters, u)
              /\ upc' = [upc EXCEPT ![u] = "waiting"]
              /\ UNCHANGED <<value, acq>>
    /\ UNCHANGED <<params, mainVars, tgVars, svcVars, cancelReq, pending, reports, resetCalls,
                   saveCalls, rel, assigned, runRet, fault>>

\* the task was cancelled before its first step: its coroutine never runs
UnitCancelledBeforeStart(u) ==
    /\ UnitsMayRun
    /\ upc[u] = "new"
    /\ cancelReq[u] = 1
    /\ upc' = [upc EXCEPT ![u] = "cancelled"]
    /\ cancelReq' = [cancelReq EXCEPT ![u] = 2]
    /\ UNCHANGED <<params, mainVars, tgVars, svcVars, semVars, pending, reports, resetCalls,
                   saveCalls, acq, rel, assigned, runRet, fault>>

\* a waiter that was given the slot resumes in acquire(): it enters the gate and
\* calls platform.assign(); if it was cancelled meanwhile it gives the slot back
UnitWake(u) ==
    /\ UnitsMayRun
    /\ upc[u] = "granted"
    /\ waiters' = Remove(waiters, u)
    /\ IF cancelReq[u] = 1
         THEN LET r == WakeUpNext(value + 1, [upc EXCEPT ![u] = "cancelled"], cancelReq,
                                  Remove(waiters, u))
              IN /\ value' = r.value
                 /\ upc' = r.upc
                 /\ cancelReq' = [cancelReq EXCEPT ![u] = 2]
                 /\ UNCHANGED acq
         ELSE LET pcs == [upc EXCEPT ![u] = "assign"]
                  r == IF value > 0
                         THEN WakeUpNext(value, pcs, cancelReq, Remove(waiters, u))
                         ELSE [value |-> value, upc |-> pcs]
              IN /\ value' = r.value
                 /\ upc' = r.upc
                 /\ acq' = [acq EXCEPT ![u] = @ + 1]
                 /\ UNCHANGED cancelReq
    /\ UNCHANGED <<params, mainVars, tgVars, svcVars, pending, reports, resetCalls,
                   saveCalls, rel, assigned, runRet, fault>>

\* a waiter is cancelled while its future is pending: it leaves the queue
UnitWaitCancelled(u) ==
    /\ UnitsMayRun
    /\ upc[u] = "waiting"
    /\ cancelReq[u] = 1
    /\ waiters' = Remove(waiters, u)
    /\ upc' = [upc EXCEPT ![u] = "cancelled"]
    /\ cancelReq' = [cancelReq EXCEPT ![u] = 2]
    /\ UNCHANGED <<params, mainVars, tgVars, svcVars, value, pending, reports, resetCalls,
                   saveCalls, acq, rel, assigned, runRet, fault>>

\* the await the task is suspended at raises an error
AwaitRaises(u) ==
    /\ UnitsMayRun
    /\ upc[u] \in InsideGate
    /\ cancelReq[u] # 1
    /\ Raise(u, upc[u], "error", reports[u])
    /\ runRet' = IF upc[u] = "start_debate" THEN [runRet EXCEPT ![u] = "raised"] ELSE runRet
    /\ UNCHANGED <<params, mainVars, tgVars, svcVars, saveCalls, acq, assigned>>

\* the cancellation requested for the task is delivered at the await it is suspended at
AwaitCancelled(u) ==
    /\ UnitsMayRun
    /\ upc[u] \in InsideGate
    /\ cancelReq[u] = 1
    /\ Raise(u, upc[u], "cancelled", reports[u])
    /\ runRet' = IF upc[u] = "start_debate" THEN [runRet EXCEPT ![u] = "cancelled"] ELSE runRet
    /\ UNCHANGED <<params, mainVars, tgVars, svcVars, saveCalls, acq, assigned>>

\* platform.assign() returns a session: work() edits the configuration and calls
\* session.update_config() (lines 33-72)
AssignReturns(u) ==
    /\ UnitsMayRun
    /\ upc[u] = "assign"
    /\ cancelReq[u] # 1
    /\ assigned' = [assigned EXCEPT ![u] = @ + 1]
    /\ upc' = [upc EXCEPT ![u] = "update_config"]
    /\ UNCHANGED <<params, mainVars, tgVars, svcVars, semVars, cancelReq, pending, reports,
                   resetCalls, saveCalls, acq, rel, runRet, fault>>

\* update_config() returns: session.motions[debate_id] is looked up and
\* select_debate() called (lines 74-75); an index out of range raises IndexError
UpdateConfigReturns(u) ==
    /\ UnitsMayRun
    /\ upc[u] = "update_config"
    /\ cancelReq[u] # 1
    /\ IF ValidIndex(tasks[u])
         THEN /\ upc' = [upc EXCEPT ![u] = "select_debate"]
              /\ UNCHANGED <<semVars, cancelReq, pending, reports, resetCalls, rel, fault>>
         ELSE Raise(u, "motions_index", "error", reports[u])
    /\ UNCHANGED <<params, mainVars, tgVars, svcVars, saveCalls, acq, assigned, runRet>>

\* select_debate() returns: when session.cur_info is None the assert of line 76
\* fails, outside the try block; otherwise "Start" is printed and start_debate()
\* called (lines 76-82)
SelectDebateReturns(u) ==
    /\ UnitsMayRun
    /\ upc[u] = "select_debate"
    /\ cancelReq[u] # 1
    /\ \E curInfoSet \in BOOLEAN :
          IF curInfoSet
            THEN /\ reports' = [reports EXCEPT ![u] = Append(@, "Start")]
                 /\ upc' = [upc EXCEPT ![u] = "start_debate"]
                 /\ UNCHANGED <<semVars, cancelReq, pending, resetCalls, rel, fault>>
            ELSE Raise(u, "assert_cur_info", "error", reports[u])
    /\ UNCHANGED <<params, mainVars, tgVars, svcVars, saveCalls, acq, assigned, runRet>>

\* start_debate() returns a result or None: "End" is printed, then "Debate
\* cancelled." or the scores and winner, and save_record() is called (lines
\* 83-111); printing the scores may raise (the assert of line 90)
StartDebateReturnsMut(u) ==
    /\ UnitsMayRun
    /\ upc[u] = "start_debate"
    /\ cancelReq[u] # 1
    /\ \E result \in {"result", "None"}, summaryOk \in BOOLEAN :
          LET rep == reports[u] \o RunReports(result)
          IN /\ result = "None" => summaryOk
             /\ runRet' = [runRet EXCEPT ![u] = result]
             /\ saveCalls' = [saveCalls EXCEPT ![u] = @ + 1]
             /\ IF summaryOk
                  THEN /\ reports' = [reports EXCEPT
                              ![u] = IF result = "None" THEN rep ELSE Append(rep, "Summary")]
                       /\ upc' = [upc EXCEPT ![u] = "save_record"]
                       /\ UNCHANGED <<semVars, cancelReq, pending, resetCalls, rel, fault>>
                  ELSE Raise(u, "report", "error", rep)
    /\ UNCHANGED <<params, mainVars, tgVars, svcVars, acq, assigned>>

StartDebateReturns(u) ==
    /\ UnitsMayRun
    /\ upc[u] = "start_debate"
    /\ cancelReq[u] # 1
    /\ \E result \in {"result", "None"}, summaryOk \in BOOLEAN :
          LET rep == reports[u] \o RunReports(result)
          IN /\ result = "None" => summaryOk
             /\ runRet' = [runRet EXCEPT ![u] = result]
             /\ IF summaryOk
                  THEN /\ reports' = [reports EXCEPT
                              ![u] = IF result = "None" THEN rep ELSE Append(rep, "Summary")]
                       /\ saveCalls' = [saveCalls EXCEPT ![u] = @ + 1]
                       /\ upc' = [upc EXCEPT ![u] = "save_record"]
                       /\ UNCHANGED <<semVars, cancelReq, pending, resetCalls, rel, fault>>
                  ELSE /\ Raise(u, "report", "error", rep)
                       /\ UNCHANGED saveCalls
    /\ UNCHANGED <<params, mainVars, tgVars, svcVars, acq, assigned>>

\* save_record() returns: "Verdict saved at" is printed, the finally clause calls
\* reset_debate() (lines 111-115)
SaveRecordReturns(u) ==
    /\ UnitsMayRun
    /\ upc[u] = "save_record"
    /\ cancelReq[u] # 1
    /\ reports' = [reports EXCEPT ![u] = Append(@, "Saved")]
    /\ resetCalls' = [resetCalls EXCEPT ![u] = @ + 1]
    /\ upc' = [upc EXCEPT ![u] = "reset_debate"]
    /\ UNCHANGED <<params, mainVars, tgVars, svcVars, semVars, cancelReq, pending,
                   saveCalls, acq, rel, assigned, runRet, fault>>

\* reset_debate() returns: the exception in flight, if any, goes on out of work();
\* the slot is released and the task ends
ResetDebateReturns(u) ==
    /\ UnitsMayRun
    /\ upc[u] = "reset_debate"
    /\ cancelReq[u] # 1
    /\ ExitTask(u, IF pending[u] = "cancelled" THEN "cancelled"
                   ELSE IF pending[u] = "error" THEN "failed"
                   ELSE "done")
    /\ UNCHANGED <<params, mainVars, tgVars, svcVars, waiters, cancelReq, pending, reports,
                   resetCalls, saveCalls, acq, assigned, runRet, fault>>

\* ---------------------------------------------------------- specification
UnitStep(u) ==
    \/ UnitStart(u)
    \/ UnitCancelledBeforeStart(u)
    \/ UnitWake(u)
    \/ UnitWaitCancelled(u)
    \/ AwaitRaises(u)
    \/ AwaitCancelled(u)
    \/ AssignReturns(u)
    \/ UpdateConfigReturns(u)
    \/ SelectDebateReturns(u)
    \/ StartDebateReturns(u)
    \/ SaveRecordReturns(u)
    \/ ResetDebateReturns(u)

MainStep ==
    \/ MainStart
    \/ InnerIter
    \/ OuterAdvance
    \/ LoopExit
    \/ InnerOnTaskError
    \/ OuterOnTaskError
    \/ MainInnerDone
    \/ MainTaskDone
    \/ MainOuterDone

SvcStep == SvcStart \/ SvcEnds

Next ==
    \/ MainStep
    \/ SvcStep
    \/ ExternalCancel
    \/ \E u \in Created : UnitStep(u)

Spec == Init /\ [][Next]_vars

\* The fan-out of a run: main's first step, which creates the serving task and
\* every wait_and_work task before it suspends, then the first step of the
\* serving task and of each wait_and_work task, which takes a slot or queues up.
FanOutStep ==
    \/ MainStart
    \/ InnerIter
    \/ OuterAdvance
    \/ LoopExit
    \/ SvcStart
    \/ \E u \in Created : UnitStart(u)

\* The command lines of Init and those that make main create up to MaxTasks
\* tasks.  A run with at most MaxUnits tasks is followed to its end, a run with
\* more through its fan-out.
FanOutInit == InitFor(GridStopValues, MaxTasks)

FanOutNext ==
    \/ NumTasks(start, stop, repeat) <= MaxUnits /\ Next
    \/ NumTasks(start, stop, repeat) > MaxUnits /\ FanOutStep

FanOutSpec == FanOutInit /\ [][FanOutNext]_vars

TypeOK ==
    /\ mpc \in {"init", "creating", "await_inner", "await_task", "outer_exit", "done"}
    /\ svc \in {"none", "created", "running"} \cup SvcTerminal
    /\ \A u \in AllUnits : upc[u] \in {"none", "new", "waiting", "granted"} \cup InsideGate \cup UnitTerminal
    /\ value \in 0..capacity

\* Fairness the event loop and the serving task's contract give: main and the
\* serving task take their steps when they can, and a serving task whose
\* cancellation was requested ends.  Nothing is assumed of the awaits of the
\* wait_and_work tasks, which may never return.
\* The runs start from the command lines of Init with the program's capacity and
\* with the smallest one.
LiveInit == Init /\ capacity \in {1, SemaphoreCapacity}

LiveSpec ==
    /\ LiveInit
    /\ [][Next]_vars
    /\ WF_vars(MainStep)
    /\ WF_vars(SvcStart)
    /\ WF_vars(SvcEnds /\ svcCancelReq)

\* The fairness of LiveSpec together with the assumption that every await of a
\* wait_and_work task (on the semaphore, the platform or the session) that can
\* finish eventually does: the event loop runs every ready task.
\* The runs start from the command lines of LiveInit that run each debate once.
FairInit == LiveInit /\ repeat = 1

UnitFairSpec ==
    /\ FairInit
    /\ [][Next]_vars
    /\ WF_vars(MainStep)
    /\ WF_vars(SvcStart)
    /\ WF_vars(SvcEnds /\ svcCancelReq)
    /\ \A u \in Units : WF_vars(UnitStep(u))

\* --------------------------------------------------------------- properties
Has(seq, x) == \E i \in 1..Len(seq) : seq[i] = x

\* tasks that hold a slot and are inside platform.assign() or work()
PastGate == {u \in Created : upc[u] \in InsideGate}

\* main has taken its first step (it was not cancelled before it)
MainRan == svc # "none"

\* the task running main() was cancelled from outside before its first step or
\* while it was suspended, and the CancelledError was not swallowed
MainInterrupted == propagate \/ mainExc = "cancelled" \/ (mpc = "done" /\ ~MainRan)

\* the task running main() was cancelled from outside
MainCancelled == MainInterrupted \/ lateCancel

\* every task of the fan-out group has been created and has ended
AllUnitsEnded ==
    /\ mpc \notin {"init", "creating"}
    /\ \A u \in Created : upc[u] \in UnitTerminal

\* C1: in every reachable state the number of tasks that have acquired the
\* semaphore and not yet released it (inside platform.assign() or work()) is at
\* most the capacity of the semaphore.
C1_GateBound == Cardinality(PastGate) <= capacity

\* the gate is full and a task is queued behind it
C1_Witness ==
    /\ Cardinality(PastGate) = capacity
    /\ \E u \in Created : upc[u] = "waiting"

\* C2: a cancellation of the serving task is requested only after every
\* wait_and_work task has been created and has ended (returned, failed or
\* cancelled), also when an error escaped a task or tasks were cancelled.
C2_CancelAfterUnits == svcCancelReq => AllUnitsEnded

\* the serving task is asked to stop after one task failed and another was cancelled
C2_Witness ==
    /\ svcCancelReq
    /\ svc = "running"
    /\ \E u \in Created : upc[u] = "failed"
    /\ \E u \in Created : upc[u] = "cancelled"

\* the awaits of steps 2-7 of a WorkUnit: update_config, select_debate,
\* start_debate, the printing of the result, save_record
Steps2to7 == {"update_config", "select_debate", "start_debate", "report", "save_record"}

\* C3: an error raised in steps 2-7 of a WorkUnit is caught at the unit's boundary:
\* it never leaves the unit, so the task does not end with it (and no sibling is
\* cancelled, the batch is not aborted).
C3_ErrorsContained ==
    \A u \in Created :
        (fault[u] # {} /\ fault[u] \subseteq Steps2to7) => upc[u] # "failed"

\* C4: for every session obtained from platform.assign(), reset_debate is called
\* exactly once before the task ends, on every exit path.
C4_ResetOncePerSession ==
    \A u \in Created :
        (upc[u] \in UnitTerminal /\ assigned[u] = 1) => resetCalls[u] = 1

\* C5: a unit whose start_debate() raised an error has reported "Failed" and has
\* called reset_debate exactly once, from then on until the task ends.
C5_RunRaiseResets ==
    \A u \in Created :
        runRet[u] = "raised" =>
            /\ reports[u] = <<"Start", "Failed">>
            /\ resetCalls[u] = 1
            /\ upc[u] \in {"reset_debate"} \cup UnitTerminal

\* a unit whose run step raised has ended normally after its reset
C5_Witness ==
    \E u \in Created : runRet[u] = "raised" /\ upc[u] = "done" /\ resetCalls[u] = 1

\* no error other than errors of run steps: the serving task did not fail, and
\* main was not cancelled before it began its last step
OnlyRunStepErrors ==
    /\ \A u \in Created : fault[u] \subseteq {"start_debate"}
    /\ ~MainInterrupted
    /\ svc # "failed"

\* C6: when the only errors of a run are errors raised by run steps, no task is
\* cancelled or ends with an error, the group is not aborted, and once main has
\* ended every task has run to completion and reported its outcome, the serving
\* task has been stopped and main has returned normally; only a cancellation of
\* main's own task from outside during its last step makes it end cancelled
\* instead, with every task completed all the same.
C6_SiblingsUnaffected ==
    OnlyRunStepErrors =>
        /\ ~innerAborting
        /\ \A u \in Created : cancelReq[u] = 0 /\ upc[u] \notin {"failed", "cancelled"}
        /\ mpc = "done" =>
              /\ mainResult = IF lateCancel THEN "cancelled" ELSE "returned"
              /\ svc \in {"cancelled", "returned"}
              /\ \A u \in Created :
                    /\ upc[u] = "done"
                    /\ Has(reports[u], "End") \/ Has(reports[u], "Failed")

\* main returned normally after one unit's run step raised and another unit
\* ran its debate and saved the record
C6_Witness ==
    /\ mpc = "done"
    /\ mainResult = "returned"
    /\ ~lateCancel
    /\ OnlyRunStepErrors
    /\ \E u, w \in Created :
          /\ fault[u] = {"start_debate"}
          /\ fault[w] = {}
          /\ Has(reports[w], "Saved")

\* C7: once every wait_and_work task has ended, main eventually ends; when a main
\* that created the serving task has reached "await task" the serving task's
\* cancellation has been requested or it is done already, and such a main never
\* ends while the serving task is running.
C7_ServiceStopped ==
    /\ AllUnitsEnded ~> (mpc = "done")
    /\ []((MainRan /\ mpc \in {"await_task", "outer_exit", "done"}) =>
             (svcCancelReq \/ svc \in SvcTerminal))
    /\ []((MainRan /\ mpc \in {"outer_exit", "done"}) => svc \in SvcTerminal)

\* main has ended after the serving task acknowledged its cancellation, with
\* one task failed and one cancelled
C7_Witness ==
    /\ mpc = "done"
    /\ svc = "cancelled"
    /\ \E u \in Created : upc[u] = "failed"
    /\ \E u \in Created : upc[u] = "cancelled"

\* the tasks main is to create: each id of [start, stop) repeat times, id-major
ExpectedTasks ==
    [i \in 1..NumTasks(start, stop, repeat) |-> start + ((i - 1) \div repeat)]

\* the tasks created for the debate id d
TasksFor(d) == {i \in 1..Len(tasks) : tasks[i] = d}

\* C8: main, once it has run its loops, has created exactly (stop-start)*repeat
\* tasks (none when stop <= start or repeat <= 0), repeat of them for each id of
\* the range and none for any other id, in id-major, repeat-minor order (the
\* ids never decrease along the creation order, and the tasks of one id are
\* created one after the other), and each task has acquired the semaphore
\* itself, once, before it does any work.
C8_TasksCreated ==
    /\ Len(tasks) <= NumTasks(start, stop, repeat)
    /\ \A i \in 1..Len(tasks) : tasks[i] = ExpectedTasks[i]
    /\ \A i, j \in 1..Len(tasks) : i < j => tasks[i] <= tasks[j]
    /\ (MainRan /\ mpc # "creating") =>
          /\ tasks = ExpectedTasks
          /\ Len(tasks) = (IF stop > start /\ repeat > 0 THEN (stop - start) * repeat ELSE 0)
          /\ \A i \in 1..Len(tasks) : InRange(tasks[i], start, stop)
          /\ repeat > 0 =>
                \A d \in start..(stop - 1) : Cardinality(TasksFor(d)) = repeat
    /\ \A u \in Created : upc[u] \in InsideGate => acq[u] = 1
    /\ \A u \in Created : acq[u] = 1 => upc[u] \in InsideGate \cup UnitTerminal

\* the command line start=0, stop=3, repeat=2: six tasks were created, two for
\* each of the three ids, id by id, and each has acquired the semaphore itself
C8_Witness ==
    /\ mpc = "await_inner"
    /\ start = 0 /\ stop = 3 /\ repeat = 2
    /\ tasks = <<0, 0, 1, 1, 2, 2>>
    /\ \A u \in Created : upc[u] = "assign" /\ acq[u] = 1

\* tasks that hold a slot: past the gate, or given the slot and not yet resumed
Holding == {u \in Created : upc[u] \in InsideGate \cup {"granted"}}

\* C9: a slot a task acquired is released exactly once before the task ends, on
\* every exit path: free slots plus held slots make up the capacity, a task is
\* past the gate exactly while it has acquired and not released, an ended task has
\* released what it acquired, and all slots are free once every task has ended.
C9_SlotsReleased ==
    MainRan =>
        /\ value + Cardinality(Holding) = capacity
        /\ \A u \in Created :
              /\ rel[u] <= acq[u] /\ acq[u] <= 1
              /\ upc[u] \in InsideGate <=> (acq[u] = 1 /\ rel[u] = 0)
              /\ upc[u] \in UnitTerminal => rel[u] = acq[u]
        /\ AllUnitsEnded => value = capacity

\* every task has ended; one released its slot when it was cancelled, another when
\* an error escaped it
C9_Witness ==
    /\ AllUnitsEnded
    /\ \E u \in Created : upc[u] = "cancelled" /\ rel[u] = 1
    /\ \E u \in Created : upc[u] = "failed" /\ rel[u] = 1

\* C10 as stated: a unit whose run step returned None reports the cancellation
\* and reports neither "End" or a summary nor "Failed".
C10_Original ==
    \A u \in Created :
        runRet[u] = "None" =>
            /\ Has(reports[u], "Cancelled")
            /\ ~Has(reports[u], "End")
            /\ ~Has(reports[u], "Summary")
            /\ ~Has(reports[u], "Failed")

\* C10, amended: a unit whose run step returned None prints "End" and then
\* "Debate cancelled.", prints no scores or winner, and prints "Failed" only when
\* save_record afterwards raised.
C10_NoneReportsCancelled ==
    \A u \in Created :
        runRet[u] = "None" =>
            /\ reports[u] \in {<<"Start", "End", "Cancelled">>,
                               <<"Start", "End", "Cancelled", "Saved">>,
                               <<"Start", "End", "Cancelled", "Failed">>}
            /\ Has(reports[u], "Failed") <=> "save_record" \in fault[u]

\* a unit whose run step returned None has ended after saving the record
C10_Witness ==
    \E u \in Created :
        /\ runRet[u] = "None"
        /\ upc[u] = "done"
        /\ reports[u] = <<"Start", "End", "Cancelled", "Saved">>

\* C11 as stated: a unit that printed "Start" and ran to its end has printed
\* exactly one of the outcome reports ("End" with the summary, "Debate
\* cancelled.", "Failed") and, after it, "Verdict saved at", in all three cases.
C11_Original ==
    \A u \in Created :
        (upc[u] = "done" /\ Has(reports[u], "Start")) =>
            reports[u] \in {<<"Start", "End", "Summary", "Saved">>,
                            <<"Start", "Cancelled", "Saved">>,
                            <<"Start", "Failed", "Saved">>}

\* what a unit that ran to its end has printed
CompleteReports ==
    {<<"Start", "End", "Summary", "Saved">>,
     <<"Start", "End", "Cancelled", "Saved">>,
     <<"Start", "Failed">>,
     <<"Start", "End", "Failed">>,
     <<"Start", "End", "Summary", "Failed">>,
     <<"Start", "End", "Cancelled", "Failed">>}

IsPrefix(s, t) == Len(s) <= Len(t) /\ \A i \in 1..Len(s) : s[i] = t[i]

\* C11, amended: a unit that printed "Start" and ran to its end has printed
\* either "End", the summary or "Debate cancelled." and then "Verdict saved at",
\* or, at the point where an error was raised (in the run, in the printing or in
\* save_record), "Failed" as its last report; "Verdict saved at" never follows
\* "Failed".  A unit that has not ended, or was cancelled, has printed a prefix
\* of one of these.
C11_ReportOrder ==
    \A u \in Created :
        /\ \E t \in CompleteReports : IsPrefix(reports[u], t)
        /\ upc[u] = "done" => reports[u] \in CompleteReports
        /\ Has(reports[u], "Failed") <=> fault[u] \cap {"start_debate", "report", "save_record"} # {}

\* a unit ended after "Failed" and without "Verdict saved at", another after saving
C11_Witness ==
    /\ \E u \in Created : upc[u] = "done" /\ reports[u] = <<"Start", "Failed">>
    /\ \E u \in Created : upc[u] = "done" /\ reports[u] = <<"Start", "End", "Summary", "Saved">>

\* a run in which nothing raised and nothing was cancelled from outside
QuietRun ==
    /\ mainExc = "none"
    /\ ~MainCancelled
    /\ svc # "failed"
    /\ \A u \in Created : fault[u] = {} /\ cancelReq[u] = 0

\* C12: under weak fairness of main, the serving task and every await of the
\* wait_and_work tasks, no task waits on the semaphore forever, and a task stops
\* waiting only by being handed a slot or, when its cancellation was requested,
\* by being cancelled; every created task ends and main ends (no deadlock);
\* with capacity 1 no two tasks are past the semaphore at once, and in a run
\* without errors or cancellation every task of the command line is created and
\* runs to its end.
C12_EventualAdmission ==
    /\ \A u \in Units : []<>(upc[u] # "waiting")
    /\ [][\A u \in Units :
              (upc[u] = "waiting" /\ upc'[u] # "waiting") =>
                  \/ upc'[u] = "granted"
                  \/ upc'[u] = "cancelled" /\ cancelReq[u] # 0]_vars
    /\ <>(mpc = "done" /\ AllUnitsEnded)
    /\ [](capacity = 1 => Cardinality(PastGate) <= 1)
    /\ []((mpc = "done" /\ QuietRun) =>
            /\ Len(tasks) = NumTasks(start, stop, repeat)
            /\ \A u \in Created : upc[u] = "done" /\ acq[u] = 1)

\* with capacity 1 a task that waited was handed the slot the first one released
C12_Witness ==
    /\ capacity = 1
    /\ \E u, w \in Created :
          /\ upc[w] = "done"
          /\ upc[u] = "granted"
          /\ cancelReq[u] = 0

\* C13: main reaches "await task" only after every task of the fan-out group has
\* ended and after task.cancel(); a serving task ends as cancelled only when its
\* cancellation was requested, and the CancelledError that "await task" then
\* raises is swallowed: main ends as the fan-out left it, so it returns normally
\* when nothing else was raised.  The serving task's cancellation never makes
\* main end cancelled: that takes a cancellation of main's own task from outside,
\* kept by a TaskGroup's exit or arriving during main's last step.
C13_CancelSwallowed ==
    /\ mpc \in {"await_task", "outer_exit", "done"} => AllUnitsEnded
    /\ mpc = "await_task" => svcCancelReq
    /\ svc = "cancelled" => svcCancelReq
    /\ (mpc = "done" /\ svc = "cancelled") =>
          /\ (mainExc = "none" /\ ~lateCancel) => mainResult = "returned"
          /\ (mainExc = "none" /\ lateCancel) => mainResult = "cancelled"
          /\ mainExc = "cancelled" => mainResult = "cancelled"
          /\ mainExc = "error" => mainResult = "failed"

\* every task ran to its end, the serving task was cancelled on request and main
\* returned normally
C13_Witness ==
    /\ mpc = "done"
    /\ svc = "cancelled"
    /\ svcCancelReq
    /\ ~lateCancel
    /\ mainResult = "returned"
    /\ Len(tasks) = 2
    /\ \A u \in Created : upc[u] = "done"

\* an id outside 0 .. len(session.motions)-1, the ids the debates of the dataset have
OutOfRangeId(i) == i < 0 \/ i >= NumMotions

\* C14 as stated: a task given an out-of-range debate id never selects or starts
\* a debate and prints no "Failed", and when it has ended main ends with a
\* failure.
C14_OutOfRangeFatal ==
    \A u \in Created :
        OutOfRangeId(tasks[u]) =>
            /\ upc[u] \notin {"select_debate", "start_debate", "save_record", "done"}
            /\ runRet[u] = "none"
            /\ ~Has(reports[u], "Failed")
            /\ (mpc = "done" /\ upc[u] \in {"done", "failed"}) => mainResult = "failed"

\* the lifecycle state main is in when it is at pc and the serving task in state
\* s: NotStarted (nothing created; a main cancelled before its first step never
\* leaves it), Running (the fan-out group is open), Draining (suspended in
\* "await task" or in the exit of the outer TaskGroup), Stopped
LifecycleRank(pc, s) ==
    IF s = "none" THEN 0
    ELSE IF pc \in {"creating", "await_inner"} THEN 1
    ELSE IF pc \in {"await_task", "outer_exit"} THEN 2
    ELSE 3

\* C15: every step of a run keeps the lifecycle state or moves it to the next
\* one; Running is left only through the finally clause, once every task of the
\* fan-out group has ended, whatever their outcomes, and main passes through
\* "await task" without suspending only when the serving task is done already;
\* the serving task is created once, by the step that leaves NotStarted, and a
\* serving task that has ended stays as it ended; a main cancelled before its
\* first step ends with nothing created; tasks are created and the semaphore is
\* acquired only while Running, and nothing changes once main has ended.
C15_LifecycleForward ==
    [][/\ LifecycleRank(mpc', svc') >= LifecycleRank(mpc, svc)
       /\ LifecycleRank(mpc', svc') <= LifecycleRank(mpc, svc) + 1
             \/ (LifecycleRank(mpc, svc) = 1 /\ mpc' = "done" /\ svc \in SvcTerminal)
       /\ (LifecycleRank(mpc, svc) = 1 /\ LifecycleRank(mpc', svc') > 1) =>
             /\ AllUnitsEnded'
             /\ svcCancelReq' \/ svc \in SvcTerminal
       /\ LifecycleRank(mpc', svc') = 3 => svc' \in SvcTerminal
       /\ (svc' = "created" /\ svc # "created") => (svc = "none" /\ mpc = "init")
       /\ (LifecycleRank(mpc, svc) = 0 /\ mpc' # mpc) =>
             \/ svc' = "created"
             \/ mpc' = "done" /\ mainResult' = "cancelled" /\ tasks' = <<>>
       /\ svc \in SvcTerminal => svc' = svc
       /\ svc' = "none" => svc = "none"
       /\ (tasks' # tasks \/ acq' # acq) => LifecycleRank(mpc, svc) = 1
       /\ mpc = "done" => UNCHANGED vars]_vars

\* a run is Stopped after a fan-out in which one task failed and one ran to its
\* end, and after the serving task was cancelled on request
C15_Witness ==
    /\ mpc = "done"
    /\ svc = "cancelled"
    /\ svcCancelReq
    /\ \E u, w \in Created : upc[u] = "failed" /\ upc[w] = "done"

\* the tasks awaiting platform.assign() or holding the session it returned
SessionOutstanding ==
    {u \in Created : upc[u] = "assign" \/ (assigned[u] = 1 /\ upc[u] \notin UnitTerminal)}

\* C16: platform.assign() is awaited only inside "async with semaphore": every
\* task awaiting or holding a session has acquired the semaphore and not released
\* it, a session was only ever assigned to a task that had acquired it, and at
\* most capacity tasks await or hold a session at once.
C16_SessionUnderSlot ==
    /\ \A u \in SessionOutstanding : acq[u] = 1 /\ rel[u] = 0
    /\ \A u \in Created : assigned[u] = 1 => acq[u] = 1
    /\ Cardinality(SessionOutstanding) <= capacity

\* the gate is full: one task holds a session, one awaits platform.assign()
C16_Witness ==
    /\ Cardinality(SessionOutstanding) = 2
    /\ capacity = 2
    /\ \E u, w \in SessionOutstanding : upc[u] = "assign" /\ upc[w] = "start_debate"

\* C17: a task cancelled while suspended in start_debate() prints no "Failed"
\* (nothing after "Start"), calls reset_debate() once with the CancelledError
\* still pending, and ends cancelled with its slot released; it never ends as if
\* it had completed, and it ends failed only when reset_debate() itself raised.
C17_CancelNotFailure ==
    \A u \in Created :
        runRet[u] = "cancelled" =>
            /\ reports[u] = <<"Start">>
            /\ resetCalls[u] = 1
            /\ saveCalls[u] = 0
            /\ upc[u] \in {"reset_debate", "cancelled", "failed"}
            /\ upc[u] = "reset_debate" => pending[u] = "cancelled"
            /\ upc[u] = "failed" => "reset_debate" \in fault[u]
            /\ upc[u] \in UnitTerminal => rel[u] = 1

\* a task cancelled in start_debate() has ended cancelled after reset_debate() returned
C17_Witness ==
    \E u \in Created :
        /\ runRet[u] = "cancelled"
        /\ upc[u] = "cancelled"
        /\ resetCalls[u] = 1
        /\ fault[u] = {}

\* the serving task has failed and the outer TaskGroup has not yet made main
\* abort the fan-out group it waits for
ServiceFailureUnhandled == svc = "failed" /\ mpc = "await_inner" /\ ~innerAborting

\* C18: when the serving task has ended with an error of its own while main
\* waits for the fan-out group, the group is eventually aborted unless all its
\* tasks end first; once it is aborting every task of the group that has not
\* ended has its cancellation requested; and main ends with a failure.
C18_ServiceFailureFatal ==
    /\ []<>(~ServiceFailureUnhandled)
    /\ []((svc = "failed" /\ innerAborting) =>
             \A u \in Created : upc[u] \notin UnitTerminal => cancelReq[u] # 0)
    /\ []((svc = "failed" /\ mpc = "done") => mainResult = "failed")

\* the serving task failed unasked while a task was running: the task was
\* cancelled and main ended with the failure
C18_Witness ==
    /\ svc = "failed"
    /\ ~svcCancelReq
    /\ mpc = "done"
    /\ mainResult = "failed"
    /\ \E u \in Created : upc[u] = "cancelled" /\ fault[u] = {}
    /\ \A u \in Created : upc[u] # "failed"

\* C19: a task calls save_record() at most once, only after start_debate()
\* returned (a result or None) and the report was printed without error, and
\* then before reset_debate(): while save_record() is awaited reset_debate() has
\* not been called, and a task whose start_debate() or report raised, or that
\* was cancelled in start_debate(), never calls it.
C19_SaveOnceBeforeReset ==
    \A u \in Created :
        /\ saveCalls[u] <= 1
        /\ saveCalls[u] = 1 =>
              runRet[u] \in {"result", "None"} /\ fault[u] \cap {"start_debate", "report"} = {}
        /\ upc[u] = "save_record" => saveCalls[u] = 1 /\ resetCalls[u] = 0
        /\ (runRet[u] \in {"raised", "cancelled"} \/ "report" \in fault[u]) => saveCalls[u] = 0
        /\ Has(reports[u], "Saved") => saveCalls[u] = 1
        /\ (resetCalls[u] = 1 /\ runRet[u] \in {"result", "None"} /\ "report" \notin fault[u]) =>
              saveCalls[u] = 1

\* one task saved its record and then reset the session, another reset it after
\* the report raised and saved nothing
C19_Witness ==
    \E u, w \in Created :
        /\ upc[u] = "done" /\ saveCalls[u] = 1 /\ resetCalls[u] = 1
        /\ upc[w] = "done" /\ "report" \in fault[w] /\ saveCalls[w] = 0 /\ resetCalls[w] = 1

\* C20: a task whose reset_debate() raised has ended failed (the error was not
\* caught) with its slot released; once inner_tg has handled the failure every
\* task of the group that has not ended has its cancellation requested; main
\* enters its finally clause with the error, requests the cancellation of the
\* serving task unless it is done, and ends with a failure only after the
\* serving task has ended.
C20_ResetErrorEscapes ==
    \A u \in Created :
        "reset_debate" \in fault[u] =>
            /\ upc[u] = "failed"
            /\ resetCalls[u] = 1
            /\ acq[u] = 1 /\ rel[u] = 1
            /\ innerAborting => \A w \in Created : upc[w] \notin UnitTerminal => cancelReq[w] # 0
            /\ mpc \in {"await_task", "outer_exit", "done"} =>
                  /\ mainExc = "error"
                  /\ svcCancelReq \/ svc \in SvcTerminal
            /\ mpc = "done" => mainResult = "failed" /\ svc \in SvcTerminal

\* reset_debate() raised in one task, its sibling was cancelled in the middle of
\* its work, the serving task was cancelled and main ended with the failure
C20_Witness ==
    /\ mpc = "done"
    /\ mainResult = "failed"
    /\ svc = "cancelled"
    /\ \E u, w \in Created :
          /\ fault[u] = {"reset_debate"}
          /\ upc[w] = "cancelled" /\ acq[w] = 1 /\ fault[w] = {}

====
